---- MODULE Spec2Model ----
(***************************************************************************)
(* The device state machines of the timer adapter: the countdown Timer,    *)
(* the PrecisionTimer and the repeating Interval, as written in            *)
(* src/unnamed/part_002 (the TypeScript adapter with precision timers).    *)
(*                                                                         *)
(* A device is a record of the object's fields.  `out` is what the last    *)
(* handler delivered to the host (property publishes and events, in        *)
(* order).  The host's Property holds no value before the first            *)
(* setCachedValueAndNotify; that is written FALSE / 0 here.                *)
(***************************************************************************)
EXTENDS Integers, Sequences, FiniteSets, TLC

\* Largest configured `seconds` of a device that Init draws.
MaxPeriod == 3

\* Cap on Timer.seconds: the Timer's tick is not taken beyond it.
MaxCount == 7

\* Longest publish trace since construction that is recorded in full.
MaxTrace == 8

\* Interval ticks since construction are counted up to this number.
MaxTicks == 20

\* Longest list of a device kind in a configuration that Init draws.
MaxEntries == 1

\* Adapter processes started one after the other on the same store.
MaxRuns == 2

VARIABLES
  timer,     \* the Timer device
  tAction,   \* the action object of the last Timer.performAction
  tHist,     \* the last two host actions on the Timer: [op, before, after]
  tTicks,    \* Timer tick callbacks run since the last host action
  tTrace,    \* the Timer's property publishes since construction
  pt,        \* the PrecisionTimer device
  pAction,   \* the action object of the last PrecisionTimer.performAction
  pLast,     \* the last host action on the PrecisionTimer: [op, before, after]
  pRun,      \* what happened since the last start() that scheduled a delay
  iv,        \* the Interval device
  iTicks,    \* Interval ticks since construction (counted up to MaxTicks)
  iWindow,   \* whether each of the last `period` Interval ticks emitted
  iGap,      \* ticks since the last elapsed event, and between the last two
  iPrev,     \* the Interval's counter when its last tick began
  iTwin,     \* an Interval of the same period under the other progress setting
  db,        \* the add-on's configuration in the host's store
  adapter,   \* the TimerAdapter: its device maps and where start() stands
  host,      \* the handleDeviceAdded calls the host has received
  aHist      \* what the adapter's runs have loaded and saved so far

timerVars == <<timer, tAction, tHist, tTicks, tTrace>>

precisionVars == <<pt, pAction, pLast, pRun>>

intervalVars == <<iv, iTicks, iWindow, iGap, iPrev, iTwin>>

adapterVars == <<db, adapter, host, aHist>>

vars == <<timer, tAction, tHist, tTicks, tTrace, pt, pAction, pLast, pRun,
          iv, iTicks, iWindow, iGap, iPrev, iTwin, db, adapter, host, aHist>>

Periods == 1..MaxPeriod

\* A property publish and an event, as the host receives them.
Publish(property, value) == <<property, value>>

Emit(event) == <<"event", event>>

----------------------------------------------------------------------------
\* Timer

Timer_new(timerConfig) ==
  [ period      |-> timerConfig,  \* this.timer.seconds
    seconds     |-> 0,            \* this.seconds
    secondsProp |-> 0,            \* secondsProperty's cached value
    running     |-> FALSE,        \* runningProperty's cached value
    elapsed     |-> FALSE,        \* finishedProperty's cached value
    timerHandle |-> FALSE,        \* this.timerHandle is set
    scheduled   |-> 0,            \* live setInterval tasks calling tick()
    out         |-> <<>> ]

Timer_setFinished(d, value) ==
  [d EXCEPT !.elapsed = value, !.out = Append(@, Publish("elapsed", value))]

Timer_setRunning(d, value) ==
  [d EXCEPT !.running = value, !.out = Append(@, Publish("running", value))]

Timer_setSeconds(d, value) ==
  [d EXCEPT !.seconds = value, !.secondsProp = value,
            !.out = Append(@, Publish("seconds", value))]

Timer_clear_keeps_handle(d) ==
  IF d.timerHandle THEN [d EXCEPT !.scheduled = @ - 1] ELSE d

\* clearTimeout(this.timerHandle); this.timerHandle = undefined
Timer_clear(d) ==
  IF d.timerHandle
    THEN [d EXCEPT !.scheduled = @ - 1, !.timerHandle = FALSE]
    ELSE d

Timer_start_unguarded(d) ==
  [Timer_setRunning(d, TRUE) EXCEPT !.scheduled = @ + 1, !.timerHandle = TRUE]

Timer_start(d) ==
  IF ~d.timerHandle
    THEN [Timer_setRunning(d, TRUE) EXCEPT !.scheduled = @ + 1,
                                           !.timerHandle = TRUE]
    ELSE d

Timer_reset_leak(d) ==
  Timer_setSeconds(Timer_setFinished(Timer_setRunning(
    [d EXCEPT !.timerHandle = FALSE], FALSE), FALSE), 0)

Timer_reset(d) ==
  Timer_setSeconds(Timer_setFinished(Timer_setRunning(Timer_clear(d), FALSE),
                                     FALSE), 0)

Timer_restart_no_reset(d) == Timer_start(d)

Timer_restart(d) == Timer_start(Timer_reset(d))

Timer_finish_elapsed_first(d) ==
  Timer_setRunning(Timer_setFinished(Timer_clear(d), TRUE), FALSE)

Timer_finish(d) ==
  Timer_setFinished(Timer_setRunning(Timer_clear(d), FALSE), TRUE)

Timer_tick(d) ==
  LET d1 == Timer_setSeconds(d, d.seconds + 1)
  IN  IF d1.seconds = d1.period THEN Timer_finish(d1) ELSE d1

\* this.callbacks of a Timer after its constructor.
Timer_callbacks == {"start", "restart", "reset"}

Timer_callback(name, d) ==
  CASE name = "start"   -> Timer_start(d)
    [] name = "restart" -> Timer_restart(d)
    [] name = "reset"   -> Timer_reset(d)

----------------------------------------------------------------------------
\* performAction: this.callbacks[action.name] on a plain object.  A name that
\* is no own key is looked up on Object.prototype: its methods are found (and
\* called with no receiver), "__proto__" yields the prototype object itself.

PrototypeQuiet == {"toString"}        \* callable, returns without a receiver

PrototypeThrowing == {"hasOwnProperty"} \* callable, TypeError without receiver

PrototypeObjects == {"__proto__"}     \* truthy, not callable: TypeError

ActionNames ==
  {"start", "restart", "reset", "stop"}
    \cup PrototypeQuiet \cup PrototypeThrowing \cup PrototypeObjects

Action_new(name) ==
  [name |-> name, started |-> FALSE, finished |-> FALSE, threw |-> FALSE,
   warned |-> FALSE]

\* The result of performAction(action) on device d with the given own
\* callbacks: the action object as the host sees it afterwards.
performAction_action(callbacks, name) ==
  LET a == [Action_new(name) EXCEPT !.started = TRUE]
  IN  IF name \in callbacks \cup PrototypeQuiet
        THEN [a EXCEPT !.finished = TRUE]
      ELSE IF name \in PrototypeThrowing \cup PrototypeObjects
        THEN [a EXCEPT !.threw = TRUE]
      ELSE [a EXCEPT !.warned = TRUE, !.finished = TRUE]

----------------------------------------------------------------------------
\* What a trace longer than MaxTrace is replaced by.
Overflow == << <<"overflow", TRUE>> >>

Record(trace, out) ==
  IF trace = Overflow \/ Len(trace) + Len(out) > MaxTrace
    THEN Overflow
    ELSE trace \o out

Remember(hist, entry) ==
  IF Len(hist) < 2 THEN Append(hist, entry) ELSE <<hist[2], entry>>

TimerInit ==
  /\ timer \in {Timer_new(s) : s \in Periods}
  /\ tAction = Action_new("none")
  /\ tHist = <<>>
  /\ tTicks = 0
  /\ tTrace = <<>>

\* The host dispatches an action to the Timer.
TimerPerformAction(name) ==
  LET d0 == [timer EXCEPT !.out = <<>>]
      d1 == IF name \in Timer_callbacks THEN Timer_callback(name, d0) ELSE d0
  IN  /\ timer' = d1
      /\ tAction' = performAction_action(Timer_callbacks, name)
      /\ tHist' = Remember(tHist, [op |-> name, before |-> timer, after |-> d1])
      /\ tTicks' = 0
      /\ tTrace' = Record(tTrace, d1.out)

\* One live setInterval task of the Timer fires.
TimerTick ==
  /\ timer.scheduled > 0
  /\ timer.seconds < MaxCount
  /\ LET d1 == Timer_tick([timer EXCEPT !.out = <<>>])
     IN  /\ timer' = d1
         /\ tTrace' = Record(tTrace, d1.out)
  /\ tTicks' = tTicks + 1
  /\ UNCHANGED <<tAction, tHist>>

TimerNext ==
  \/ \E name \in ActionNames :
       TimerPerformAction(name)
         /\ UNCHANGED <<precisionVars, intervalVars, adapterVars>>
  \/ TimerTick /\ UNCHANGED <<precisionVars, intervalVars, adapterVars>>

----------------------------------------------------------------------------
\* PrecisionTimer

PrecisionTimer_new(timerConfig) ==
  [ period      |-> timerConfig,  \* this.timer.seconds
    timerHandle |-> FALSE,        \* this.timerHandle is set
    pending     |-> 0,            \* live setTimeout tasks
    remaining   |-> 0,            \* seconds until the newest one expires
    out         |-> <<>> ]

PrecisionTimer_start_millis(d) ==
  IF ~d.timerHandle
    THEN [d EXCEPT !.timerHandle = TRUE, !.pending = @ + 1, !.remaining = 0]
    ELSE d

PrecisionTimer_start_rearm(d) ==
  [d EXCEPT !.timerHandle = TRUE, !.pending = 1, !.remaining = d.period]

\* setTimeout(..., this.timer.seconds * 1000) unless a handle is set
PrecisionTimer_start(d) ==
  IF ~d.timerHandle
    THEN [d EXCEPT !.timerHandle = TRUE, !.pending = @ + 1,
                   !.remaining = d.period]
    ELSE d

\* The setTimeout callback; the expired task is gone.
PrecisionTimer_timeout(d) ==
  [d EXCEPT !.out = Append(@, Emit("elapsed")), !.timerHandle = FALSE,
            !.pending = @ - 1]

\* this.callbacks of a PrecisionTimer after its constructor.
PrecisionTimer_callbacks == {"start"}

\* Entries of a handler's output that are property publishes / events.
Events(out) == SelectSeq(out, LAMBDA e : e[1] = "event")

Publishes(out) == SelectSeq(out, LAMBDA e : e[1] # "event")

PrecisionInit ==
  /\ pt \in {PrecisionTimer_new(s) : s \in Periods}
  /\ pAction = Action_new("none")
  /\ pLast = [op |-> "none", before |-> pt, after |-> pt]
  /\ pRun = [started |-> FALSE, waited |-> 0, events |-> 0, publishes |-> 0,
             again |-> FALSE]

\* The host dispatches an action to the PrecisionTimer.
PrecisionPerformAction(name) ==
  LET d0 == [pt EXCEPT !.out = <<>>]
      d1 == IF name \in PrecisionTimer_callbacks
              THEN PrecisionTimer_start(d0) ELSE d0
      scheduled == d1.pending > d0.pending \/ d1.remaining > d0.remaining
  IN  /\ pt' = d1
      /\ pAction' = performAction_action(PrecisionTimer_callbacks, name)
      /\ pLast' = [op |-> name, before |-> pt, after |-> d1]
      /\ pRun' = IF name = "start" /\ ~d0.timerHandle
                   THEN [started |-> TRUE, waited |-> 0, events |-> 0,
                         publishes |-> 0, again |-> pRun.events > 0]
                   ELSE [pRun EXCEPT
                           !.publishes = @ + Len(Publishes(d1.out))]

\* One second passes while a delayed completion is pending; the completion
\* runs when its delay has expired.
PrecisionSecond ==
  /\ pt.pending > 0
  /\ LET d0 == [pt EXCEPT !.out = <<>>]
         d1 == IF d0.remaining > 1
                 THEN [d0 EXCEPT !.remaining = @ - 1]
                 ELSE PrecisionTimer_timeout([d0 EXCEPT !.remaining = 0])
     IN  /\ pt' = d1
         /\ pRun' = [pRun EXCEPT !.waited = @ + 1,
                                 !.events = @ + Len(Events(d1.out)),
                                 !.publishes = @ + Len(Publishes(d1.out))]
  /\ UNCHANGED <<pAction, pLast>>

PrecisionNext ==
  \/ \E name \in ActionNames :
       PrecisionPerformAction(name)
         /\ UNCHANGED <<timerVars, intervalVars, adapterVars>>
  \/ PrecisionSecond /\ UNCHANGED <<timerVars, intervalVars, adapterVars>>

----------------------------------------------------------------------------
\* Interval

Interval_new_from_zero(intervalConfig, progressBar) ==
  [ period      |-> intervalConfig,
    seconds     |-> 0,
    progressBar |-> progressBar,
    secondsProp |-> 0,
    out         |-> <<>> ]

Interval_new(intervalConfig, progressBar) ==
  [ period      |-> intervalConfig,  \* this.interval.seconds
    seconds     |-> 1,               \* this.seconds
    progressBar |-> progressBar,     \* this.secondsProperty is defined
    secondsProp |-> 0,               \* secondsProperty's cached value
    out         |-> <<>> ]

Interval_setSeconds_always(d, value) ==
  [d EXCEPT !.secondsProp = value,
            !.out = Append(@, Publish("seconds", value))]

Interval_setSeconds(d, value) ==
  IF d.progressBar
    THEN [d EXCEPT !.secondsProp = value,
                   !.out = Append(@, Publish("seconds", value))]
    ELSE d

Interval_tick_emit_on_wrap(d) ==
  LET d1 == [d EXCEPT !.seconds = @ + 1]
      d2 == IF d1.seconds > d1.period
              THEN [d1 EXCEPT !.seconds = 1,
                              !.out = Append(@, Emit("elapsed"))]
              ELSE d1
  IN  Interval_setSeconds(d2, d2.seconds)

Interval_tick_publish_first(d) ==
  LET d1 == [d EXCEPT !.seconds = @ + 1]
      d2 == IF d1.seconds > d1.period THEN [d1 EXCEPT !.seconds = 1] ELSE d1
      d3 == Interval_setSeconds(d2, d2.seconds)
  IN  IF d1.seconds = d1.period
        THEN [d3 EXCEPT !.out = Append(@, Emit("elapsed"))]
        ELSE d3

Interval_tick_publish_before_wrap(d) ==
  LET d1 == [d EXCEPT !.seconds = @ + 1]
      d2 == IF d1.seconds = d1.period
              THEN [d1 EXCEPT !.out = Append(@, Emit("elapsed"))]
              ELSE d1
      d3 == Interval_setSeconds(d2, d2.seconds)
  IN  IF d3.seconds > d3.period THEN [d3 EXCEPT !.seconds = 1] ELSE d3

Interval_tick(d) ==
  LET d1 == [d EXCEPT !.seconds = @ + 1]
      d2 == IF d1.seconds = d1.period
              THEN [d1 EXCEPT !.out = Append(@, Emit("elapsed"))]
              ELSE d1
      d3 == IF d2.seconds > d2.period THEN [d2 EXCEPT !.seconds = 1] ELSE d2
  IN  Interval_setSeconds(d3, d3.seconds)

IntervalInit ==
  /\ iv \in {Interval_new(s, b) : s \in Periods, b \in BOOLEAN}
  /\ iTicks = 0
  /\ iWindow = <<>>
  /\ iGap = [since |-> 0, events |-> 0, between |-> 0]
  /\ iPrev = iv.seconds
  /\ iTwin = Interval_new(iv.period, ~iv.progressBar)

\* The last n entries of sequence w, all of it when it is shorter.
Latest(w, n) == SubSeq(w, IF Len(w) > n THEN Len(w) - n + 1 ELSE 1, Len(w))

\* The Interval's setInterval task fires; the twin's task, created with
\* the same delay, fires with it.
IntervalTick ==
  LET d1 == Interval_tick([iv EXCEPT !.out = <<>>])
      emitted == Events(d1.out) # <<>>
  IN  /\ iv' = d1
      /\ iPrev' = iv.seconds
      /\ iTwin' = Interval_tick([iTwin EXCEPT !.out = <<>>])
      /\ iTicks' = IF iTicks < MaxTicks THEN iTicks + 1 ELSE iTicks
      /\ iWindow' = Latest(Append(iWindow, emitted), iv.period)
      /\ iGap' = IF emitted
                   THEN [since |-> 0,
                         events |-> IF iGap.events < 2 THEN iGap.events + 1
                                    ELSE iGap.events,
                         between |-> IF iGap.events > 0 THEN iGap.since + 1
                                     ELSE 0]
                   ELSE [iGap EXCEPT
                           !.since = IF @ < MaxTicks THEN @ + 1 ELSE @]

IntervalNext ==
  IntervalTick /\ UNCHANGED <<timerVars, precisionVars, adapterVars>>

----------------------------------------------------------------------------
\* TimerAdapter

\* An identifier that `!entry.id` takes as missing.
NoId == 0

\* The values of crypto.randomBytes(16).toString('hex'), as many as two loads
\* of full lists can draw.  The code only tests an identifier for being
\* missing and uses it as a key, so which value a draw yields does not matter
\* beyond which values it equals; 128 random bits are taken never to equal an
\* identifier in use (the code compares them with nothing).
Ids == 1..(2 * 3 * MaxEntries)

ListNames == {"timers", "precisionTimers", "intervals"}

NoConfig ==
  [timers |-> <<>>, precisionTimers |-> <<>>, intervals |-> <<>>,
   deactivateProgressBar |-> FALSE]

\* The identifiers of the entries of configuration c.
IdsOf(c) ==
  UNION {{c[l][i].id : i \in 1..Len(c[l])} : l \in ListNames} \ {NoId}

NeedsId_always(entry) == TRUE

\* if (!timer.id)
NeedsId(entry) == entry.id = NoId

\* How many entries of list up to position i get a fresh identifier.
Rank(list, i) == Cardinality({j \in 1..i : NeedsId(list[j])})

\* The list after its loop: the k-th entry without identifier has the
\* (offset + k)-th of the drawn identifiers.
WithIds(list, fresh, offset) ==
  [i \in 1..Len(list) |->
     IF NeedsId(list[i])
       THEN [list[i] EXCEPT !.id = fresh[offset + Rank(list, i)]]
       ELSE list[i]]

\* The configuration object after the three loops of load().
TimerAdapter_load_ids(c, fresh) ==
  LET t == WithIds(c.timers, fresh, 0)
      nt == Rank(c.timers, Len(c.timers))
      p == WithIds(c.precisionTimers, fresh, nt)
      np == Rank(c.precisionTimers, Len(c.precisionTimers))
  IN  [c EXCEPT !.timers = t, !.precisionTimers = p,
                !.intervals = WithIds(c.intervals, fresh, nt + np)]

\* How many identifiers load() draws for configuration c.
Draws(c) ==
  Rank(c.timers, Len(c.timers))
    + Rank(c.precisionTimers, Len(c.precisionTimers))
    + Rank(c.intervals, Len(c.intervals))

\* The identifiers load() draws for configuration c, in the order drawn.
randomBytes(c) ==
  LET unused == Ids \ IdsOf(c)
  IN  [i \in 1..Draws(c) |->
         CHOOSE x \in unused : Cardinality({y \in unused : y < x}) = i - 1]

\* this.timers[timer.id] = ...: a later entry with the same key replaces it.
Put(map, key, value) ==
  [k \in DOMAIN map \cup {key} |-> IF k = key THEN value ELSE map[k]]

Device_new(kind, entry, progressBar) ==
  CASE kind = "Timer"          -> Timer_new(entry.seconds)
    [] kind = "PrecisionTimer" -> PrecisionTimer_new(entry.seconds)
    [] kind = "Interval"       -> Interval_new(entry.seconds, progressBar)

RECURSIVE Instantiate(_, _, _, _)
Instantiate(map, list, kind, progressBar) ==
  IF list = <<>>
    THEN map
    ELSE Instantiate(
           Put(map, Head(list).id, Device_new(kind, Head(list), progressBar)),
           Tail(list), kind, progressBar)

\* The adapter after the three loops of load() over configuration c, whose
\* entries all have identifiers by then.
TimerAdapter_load_devices(a, c) ==
  [a EXCEPT
     !.config = c,
     !.timers = Instantiate(@, c.timers, "Timer", TRUE),
     !.precisionTimers =
        Instantiate(@, c.precisionTimers, "PrecisionTimer", TRUE),
     !.intervals =
        Instantiate(@, c.intervals, "Interval", c.deactivateProgressBar # TRUE)]

\* The device identifier the constructors pass to Device: `timer-${id}` for a
\* Timer and for a PrecisionTimer, `interval-${id}` for an Interval.
DeviceId(kind, id) == <<IF kind = "Interval" THEN "interval" ELSE "timer", id>>

Added(map, kind, by) ==
  {[device |-> DeviceId(kind, id), kind |-> kind, by |-> by] :
     id \in DOMAIN map}

TimerAdapter_advertise_timers_only(a, by) == Added(a.timers, "Timer", by)

\* The handleDeviceAdded calls of advertise().
TimerAdapter_advertise(a, by) ==
  Added(a.timers, "Timer", by)
    \cup Added(a.precisionTimers, "PrecisionTimer", by)
    \cup Added(a.intervals, "Interval", by)

TimerAdapter_start_no_advertise(a) == {}

\* start() after `await this.load()`.
TimerAdapter_start_advertise(a) == TimerAdapter_advertise(a, "start")

\* The adapter when its constructor returns: start() waits for db.open().
TimerAdapter_new ==
  [pc |-> "open", config |-> NoConfig, timers |-> <<>>,
   precisionTimers |-> <<>>, intervals |-> <<>>]

\* Lists of at most MaxEntries entries, every entry with `seconds`; the
\* entries that have an identifier have distinct ones.
Entries(seconds) == [id : {NoId} \cup Ids, seconds : {seconds}]

Lists(seconds) ==
  UNION {[1..n -> Entries(seconds)] : n \in 0..MaxEntries}

Stored(c) ==
  LET at == {<<l, i>> : l \in ListNames, i \in 1..MaxEntries}
      has == {x \in at : x[2] <= Len(c[x[1]]) /\ c[x[1]][x[2]].id # NoId}
  IN  /\ \A x, y \in has : x # y => c[x[1]][x[2]].id # c[y[1]][y[2]].id
      /\ IdsOf(c) = 1..Cardinality(has)

AdapterInit ==
  /\ db \in {c \in [timers : Lists(MaxPeriod),
                     precisionTimers : Lists(MaxPeriod),
                     intervals : Lists(MaxPeriod),
                     deactivateProgressBar : BOOLEAN] : Stored(c)}
  /\ adapter = TimerAdapter_new
  /\ host = {}
  /\ aHist = [run |-> 1, last |-> "new", loaded |-> NoConfig,
              saved |-> FALSE, before |-> NoConfig, paired |-> FALSE]

Step(name) == [aHist EXCEPT !.last = name]

\* db.open() resolves.
AdapterOpened ==
  /\ adapter.pc = "open"
  /\ adapter' = [adapter EXCEPT !.pc = "loadConfig"]
  /\ aHist' = Step("opened")
  /\ UNCHANGED <<db, host>>

\* db.loadConfig() resolves: the three loops run and saveConfig is called.
AdapterLoaded ==
  /\ adapter.pc = "loadConfig"
  /\ adapter' = [TimerAdapter_load_devices(
                    adapter, TimerAdapter_load_ids(db, randomBytes(db)))
                  EXCEPT !.pc = "saveConfig"]
  /\ aHist' = [Step("loaded") EXCEPT !.loaded = db]
  /\ UNCHANGED <<db, host>>

\* db.saveConfig(config) resolves, and with it load().
AdapterSaved ==
  /\ adapter.pc = "saveConfig"
  /\ db' = adapter.config
  /\ adapter' = [adapter EXCEPT !.pc = "advertise"]
  /\ aHist' = Step("saved")
  /\ UNCHANGED host

\* db.open(), db.loadConfig() or db.saveConfig() rejects: load() and start()
\* reject, and nothing in the adapter handles it.
AdapterStoreFails ==
  /\ adapter.pc \in {"open", "loadConfig", "saveConfig"}
  /\ adapter' = [adapter EXCEPT !.pc = "failed"]
  /\ aHist' = Step("failed")
  /\ UNCHANGED <<db, host>>

\* start() goes on after `await this.load()`.
AdapterAdvertised ==
  /\ adapter.pc = "advertise"
  /\ host' = host \cup TimerAdapter_start_advertise(adapter)
  /\ adapter' = [adapter EXCEPT !.pc = "done"]
  /\ aHist' = Step("advertised")
  /\ UNCHANGED db

TimerAdapter_startPairing(a) == TimerAdapter_advertise(a, "pairing")

\* The host asks for pairing.
AdapterStartPairing ==
  /\ host' = host \cup TimerAdapter_startPairing(adapter)
  /\ aHist' = [Step("pairing") EXCEPT !.paired = TRUE]
  /\ UNCHANGED <<db, adapter>>

\* The add-on's process ends and the host starts it again on the same store.
AdapterRestarted ==
  /\ adapter.pc \in {"done", "failed"}
  /\ aHist.run < MaxRuns
  /\ adapter' = TimerAdapter_new
  /\ host' = {}
  /\ aHist' = [run |-> aHist.run + 1, last |-> "new", loaded |-> NoConfig,
               saved |-> adapter.pc = "done", before |-> aHist.loaded,
               paired |-> FALSE]
  /\ UNCHANGED db

AdapterStartup ==
  \/ AdapterOpened
  \/ AdapterLoaded
  \/ AdapterSaved
  \/ AdapterAdvertised

AdapterNext ==
  \/ AdapterStartup /\ UNCHANGED <<timerVars, precisionVars, intervalVars>>
  \/ AdapterStoreFails /\ UNCHANGED <<timerVars, precisionVars, intervalVars>>
  \/ AdapterStartPairing
       /\ UNCHANGED <<timerVars, precisionVars, intervalVars>>
  \/ AdapterRestarted /\ UNCHANGED <<timerVars, precisionVars, intervalVars>>

----------------------------------------------------------------------------
\* A configuration's list of a device kind may be empty: the device is then
\* never constructed.

NoDevice == [period |-> 0]

TimerAbsent ==
  /\ timer = NoDevice
  /\ tAction = Action_new("none")
  /\ tHist = <<>>
  /\ tTicks = 0
  /\ tTrace = <<>>

PrecisionAbsent ==
  /\ pt = NoDevice
  /\ pAction = Action_new("none")
  /\ pLast = [op |-> "none", before |-> NoDevice, after |-> NoDevice]
  /\ pRun = [started |-> FALSE, waited |-> 0, events |-> 0, publishes |-> 0,
             again |-> FALSE]

IntervalAbsent ==
  /\ iv = NoDevice
  /\ iTicks = 0
  /\ iWindow = <<>>
  /\ iGap = [since |-> 0, events |-> 0, between |-> 0]
  /\ iPrev = 0
  /\ iTwin = NoDevice

\* The adapter with nothing configured and its startup over.
AdapterAbsent ==
  /\ db = NoConfig
  /\ adapter = [TimerAdapter_new EXCEPT !.pc = "done"]
  /\ host = {}
  /\ aHist = [run |-> 1, last |-> "advertised", loaded |-> NoConfig,
              saved |-> FALSE, before |-> NoConfig, paired |-> FALSE]

InitTimer == TimerInit /\ PrecisionAbsent /\ IntervalAbsent /\ AdapterAbsent

InitPrecision ==
  TimerAbsent /\ PrecisionInit /\ IntervalAbsent /\ AdapterAbsent

InitInterval ==
  TimerAbsent /\ PrecisionAbsent /\ IntervalInit /\ AdapterAbsent

InitAdapter == TimerAbsent /\ PrecisionAbsent /\ IntervalAbsent /\ AdapterInit

SpecTimer == InitTimer /\ [][TimerNext]_vars

SpecPrecision == InitPrecision /\ [][PrecisionNext]_vars

SpecInterval == InitInterval /\ [][IntervalNext]_vars

SpecAdapter == InitAdapter /\ [][AdapterNext]_vars

\* A pending promise of the store is settled, and a resolved `await` goes on.
\* Fair ticking: a setInterval task that stays live keeps firing.
SpecTimerFair ==
  /\ SpecTimer
  /\ WF_vars(TimerTick
               /\ UNCHANGED <<precisionVars, intervalVars, adapterVars>>)

SpecAdapterFair ==
  /\ SpecAdapter
  /\ WF_vars(AdapterStartup
               /\ UNCHANGED <<timerVars, precisionVars, intervalVars>>)

----------------------------------------------------------------------------
\* Countdown timer: properties

\* The last host action on the Timer (only read when tHist is not empty).
tLast == tHist[Len(tHist)]

\* Device state without the per-handler output.
Fields(d) == [d EXCEPT !.out = <<>>]

\* C1: after start() and then S = config.seconds ticks with no other action
\* in between, elapsed = true, running = false and seconds = S.
C1_StartThenPeriodTicksElapses ==
  (tHist # <<>> /\ tLast.op = "start" /\ tTicks = timer.period)
    => (timer.elapsed /\ ~timer.running /\ timer.seconds = timer.period)

\* C2: reset() from any reachable state leaves seconds = 0, running = false,
\* elapsed = false and no scheduled tick, and nothing is published afterwards
\* until the next host action.
C2_ResetReturnsToIdle ==
  (tHist # <<>> /\ tLast.op = "reset")
    => /\ timer.seconds = 0 /\ timer.secondsProp = 0
       /\ ~timer.running /\ ~timer.elapsed
       /\ ~timer.timerHandle /\ timer.scheduled = 0
       /\ tTicks = 0
       /\ timer = tLast.after
       /\ tLast.after.out =
            <<Publish("running", FALSE), Publish("elapsed", FALSE),
              Publish("seconds", 0)>>

C2_Witness ==
  /\ tHist # <<>> /\ tLast.op = "reset"
  /\ tLast.before.running /\ tLast.before.seconds >= 1

\* C3: reset() immediately followed by start(), dispatched as two actions from
\* a state s, reaches the device state that restart() reaches from s and
\* publishes the same sequence; equal device states have equal futures.
C3_RestartIsResetThenStart ==
  (/\ Len(tHist) = 2 /\ tHist[1].op = "reset" /\ tHist[2].op = "start"
   /\ tHist[2].before = tHist[1].after)
    => LET r == Timer_restart(Fields(tHist[1].before))
       IN  /\ Fields(tHist[2].after) = Fields(r)
           /\ tHist[1].after.out \o tHist[2].after.out = r.out
           /\ Len(r.out) = 4

C3_Witness ==
  /\ Len(tHist) = 2 /\ tHist[1].op = "reset" /\ tHist[2].op = "start"
  /\ tHist[2].before = tHist[1].after
  /\ tHist[1].before.running /\ tHist[1].before.seconds >= 1
  /\ tTicks >= 1

\* C4: at most one repeating tick task is ever scheduled, and it is the one the
\* handle names; a start() while running changes nothing; seconds grows by
\* exactly one per tick after a start().
C4_SingleTickTask ==
  /\ timer.scheduled <= 1
  /\ timer.timerHandle <=> timer.scheduled = 1
  /\ (tHist # <<>> /\ tLast.op = "start")
       => /\ tLast.before.timerHandle => tLast.after = Fields(tLast.before)
          /\ timer.seconds = tLast.before.seconds + tTicks

C4_Witness ==
  /\ tHist # <<>> /\ tLast.op = "start"
  /\ tLast.before.timerHandle /\ tLast.before.seconds >= 1
  /\ tTicks >= 1

\* The Timer has seen exactly one host action, a start().
StartedFromInitial == Len(tHist) = 1 /\ tHist[1].op = "start"

\* The first n publishes of trace t, all of it when it is shorter.
Prefix(t, n) == SubSeq(t, 1, IF n < Len(t) THEN n ELSE Len(t))

TeaAsClaimed ==
  <<Publish("running", TRUE), Publish("seconds", 1), Publish("seconds", 2),
    Publish("seconds", 3), Publish("elapsed", TRUE), Publish("running", FALSE)>>

TeaAsPublished ==
  <<Publish("running", TRUE), Publish("seconds", 1), Publish("seconds", 2),
    Publish("seconds", 3), Publish("running", FALSE), Publish("elapsed", TRUE)>>

\* The publishes of a three-second timer after one start() and tTicks ticks
\* are those of `expected`: one for the start, one per tick, and the last
\* tick's two more; no tick is left scheduled after the third.
TeaTraceIs(expected) ==
  (timer.period = 3 /\ StartedFromInitial)
    => /\ tTicks <= 3
       /\ tTrace = Prefix(expected, IF tTicks = 3 THEN 6 ELSE 1 + tTicks)
       /\ tTicks = 3 => timer.scheduled = 0

\* C9 as stated: the Tea timer publishes running=true, seconds=1, 2, 3, then
\* elapsed=true followed by running=false, and nothing afterwards.
C9_TeaTraceElapsedFirst == TeaTraceIs(TeaAsClaimed)

\* C9 as amended: the Tea timer publishes running=true, seconds=1, 2, 3, then
\* running=false followed by elapsed=true, and nothing afterwards.
C9_TeaTraceRunningFirst == TeaTraceIs(TeaAsPublished)

C9_Witness == timer.period = 3 /\ StartedFromInitial /\ tTicks = 3

\* C10: an action whose name is not in the device's callback set raises no
\* error, is started and then finished towards the host, and leaves the
\* device's state unchanged.
C10_UnknownActionCompletes ==
  /\ (tHist # <<>> /\ tAction.name \notin Timer_callbacks)
       => /\ tAction.started /\ tAction.finished /\ ~tAction.threw
          /\ Fields(tLast.after) = Fields(tLast.before)
  /\ (pLast.op # "none" /\ pAction.name \notin PrecisionTimer_callbacks)
       => /\ pAction.started /\ pAction.finished /\ ~pAction.threw
          /\ Fields(pLast.after) = Fields(pLast.before)

----------------------------------------------------------------------------
\* Repeating interval: properties

\* How many of the ticks in window w emitted the elapsed event.
Emitted(w) == Cardinality({i \in 1..Len(w) : w[i]})

\* C5: the elapsed event fires exactly once in every P consecutive ticks, and
\* consecutive events are exactly P ticks apart, for every period P >= 1.
C5_ElapsedOncePerPeriod ==
  /\ Len(iWindow) = iv.period => Emitted(iWindow) = 1
  /\ iGap.events = 2 => iGap.between = iv.period

\* C6: the counter held between ticks, and every value published through the
\* progress property, lies in 1..P.
C6_CounterWithinPeriod ==
  /\ iv.seconds \in 1..iv.period
  /\ \A i \in 1..Len(iv.out) :
       iv.out[i][1] = "seconds" => iv.out[i][2] \in 1..iv.period
  /\ (iv.progressBar /\ iTicks > 0) => iv.secondsProp \in 1..iv.period

C6_Witness ==
  /\ iv.progressBar /\ iv.period >= 2 /\ iTicks > iv.period
  /\ iv.seconds = 1 /\ iv.out = <<Publish("seconds", 1)>>

----------------------------------------------------------------------------
\* Precision timer: properties

\* C7: a start() issued while no completion is pending causes exactly one
\* elapsed event, when S seconds have passed since that start(), and no
\* property publish before it.
C7_OneEventAfterDelay ==
  pRun.started
    => /\ pRun.publishes = 0
       /\ IF pt.timerHandle
            THEN /\ pRun.events = 0
                 /\ pRun.waited < pt.period
                 /\ pt.remaining = pt.period - pRun.waited
            ELSE /\ pRun.events = 1
                 /\ pRun.waited = pt.period
                 /\ pt.pending = 0

C7_Witness ==
  /\ pRun.started /\ pt.period >= 2
  /\ ~pt.timerHandle /\ pRun.events = 1 /\ pt.out = <<Emit("elapsed")>>

\* C8: at most one delayed completion is pending; a start() while one is
\* pending schedules nothing and does not postpone it; the firing clears the
\* handle, and a start() after it schedules a new completion.
C8_SinglePendingCompletion ==
  /\ pt.pending <= 1
  /\ pt.timerHandle <=> pt.pending = 1
  /\ (pLast.op = "start" /\ pLast.before.timerHandle)
       => /\ pLast.after = Fields(pLast.before)
          /\ pt.timerHandle => pt.remaining = pt.period - pRun.waited
  /\ (pLast.op = "start" /\ ~pLast.before.timerHandle)
       => /\ pLast.after.timerHandle /\ pLast.after.pending = 1
          /\ pLast.after.remaining = pt.period
  /\ (pRun.started /\ pRun.events > 0) => ~pt.timerHandle

C8_Witness ==
  /\ pRun.again /\ pRun.events = 1 /\ ~pt.timerHandle
  /\ pLast.op = "start" /\ pLast.before.timerHandle
  /\ pLast.before.remaining < pt.period

----------------------------------------------------------------------------
\* Adapter: properties

\* The places of configuration c that hold an entry.
At(c) == {x \in ListNames \X (1..(MaxEntries + 1)) : x[2] <= Len(c[x[1]])}

\* The configuration has been persisted by this run's load().
Persisted == adapter.pc \in {"advertise", "done"}

KindOf(l) ==
  CASE l = "timers"          -> "Timer"
    [] l = "precisionTimers" -> "PrecisionTimer"
    [] l = "intervals"       -> "Interval"

\* Every entry of the loaded configuration has its device registered with the
\* host by start() itself.
RegisteredAtStartup ==
  \A x \in At(adapter.config) :
    [device |-> DeviceId(KindOf(x[1]), adapter.config[x[1]][x[2]].id),
     kind |-> KindOf(x[1]), by |-> "start"] \in host

\* C12: when the store opens, loads and saves without error, start() goes on
\* to register every device of the three lists, with no pairing request
\* needed; it registers only after load() has completed.
C12_StartupAdvertisesAll ==
  /\ [](adapter.pc = "done" => RegisteredAtStartup)
  /\ []((\E r \in host : r.by = "start") => adapter.pc = "done")
  /\ <>(adapter.pc = "failed" \/ (adapter.pc = "done" /\ RegisteredAtStartup))

C12_Witness ==
  /\ adapter.pc = "done" /\ aHist.run = 1 /\ ~aHist.paired
  /\ Cardinality(At(adapter.config)) = 3
  /\ Cardinality(host) = 3

\* The devices the adapter holds in its three maps, by the identifier the
\* host knows them under.
Instantiated(a) ==
  {<<"timer", id>> : id \in DOMAIN a.timers \cup DOMAIN a.precisionTimers}
    \cup {<<"interval", id>> : id \in DOMAIN a.intervals}

\* C13: whenever it is called, startPairing() leaves the adapter's maps, the
\* devices in them and the stored configuration as they are; it registers
\* with the host exactly the devices instantiated at that moment, and a
\* second call in a row adds nothing.
C13_PairingOnlyRegisters ==
  [][aHist'.last = "pairing"
       => /\ adapter' = adapter
          /\ db' = db
          /\ host \subseteq host'
          /\ \A r \in host' \ host :
               r.by = "pairing" /\ r.device \in Instantiated(adapter)
          /\ \A d \in Instantiated(adapter) :
               \E r \in host' : r.device = d /\ r.by = "pairing"
          /\ aHist.last = "pairing" => host' = host]_vars

C13_Witness ==
  /\ aHist.last = "pairing"
  /\ adapter.pc = "saveConfig"
  /\ Cardinality(Instantiated(adapter)) = 3
  /\ Cardinality(host) = 3

\* C14: between handlers, a countdown timer publishes running = true exactly
\* when it holds a timer handle, and the handle stands for exactly one live
\* tick task.
C14_RunningIffHandle ==
  /\ timer.running <=> timer.timerHandle
  /\ timer.scheduled = (IF timer.timerHandle THEN 1 ELSE 0)

C14_Witness ==
  /\ tTicks = timer.period
  /\ timer.elapsed
  /\ Len(timer.out) = 3
  /\ ~timer.running /\ ~timer.timerHandle /\ timer.scheduled = 0

\* C15: a countdown timer that publishes elapsed = true is not running.
C15_ElapsedImpliesStopped == timer.elapsed => ~timer.running

\* C16: the seconds counter of a countdown timer, and every value published
\* for its seconds property, lies between 0 and the configured seconds.
C16_SecondsWithinRange ==
  /\ timer.seconds \in 0..timer.period
  /\ timer.secondsProp \in 0..timer.period
  /\ \A i \in 1..Len(timer.out) :
       timer.out[i][1] = "seconds" => timer.out[i][2] \in 0..timer.period

\* The last thing that happened to the timer was a restart action.
JustRestarted == tHist # <<>> /\ tLast.op = "restart" /\ tTicks = 0

\* C17: under fair ticking a running countdown timer eventually stops
\* running, unless a restart begins the countdown anew (a reset stops it at
\* once).
C17_RunningEventuallyStops ==
  [](timer.running => <>(~timer.running \/ JustRestarted))

\* The same for countdowns of a timer that has not elapsed.
C17_FreshCountdownStops ==
  []((timer.running /\ ~timer.elapsed) => <>(~timer.running \/ JustRestarted))

\* C18: when the store fails at startup after devices have been instantiated,
\* those devices are registered with the host.
C18_FailedStartupStillRegisters ==
  (adapter.pc = "failed" /\ Instantiated(adapter) # {})
    => \A d \in Instantiated(adapter) : \E r \in host : r.device = d

\* C19: a tick increments the counter, emits elapsed when the incremented
\* counter equals the period, wraps the counter to 1 when it exceeds the
\* period, and publishes last; the tick's output is the event, if any,
\* followed by the publish of the counter as it stands after the wrap.
C19_TickOrder ==
  iTicks > 0
    => LET n    == iPrev + 1
           post == IF n > iv.period THEN 1 ELSE n
       IN  /\ iv.seconds = post
           /\ iv.out =
                (IF n = iv.period THEN <<Emit("elapsed")>> ELSE <<>>)
                  \o (IF iv.progressBar THEN <<Publish("seconds", post)>>
                      ELSE <<>>)
           /\ iv.progressBar => iv.secondsProp = post

C19_Witness ==
  /\ iTicks > iv.period
  /\ iv.progressBar
  /\ iv.out = <<Emit("elapsed"), Publish("seconds", iv.period)>>

\* C20: an interval without progress display has no seconds property and
\* publishes nothing, and on every tick its counter and its elapsed events
\* are those of the interval of the same period with progress display.
C20_ProgressBarOnlyPublishes ==
  LET on  == IF iv.progressBar THEN iv ELSE iTwin
      off == IF iv.progressBar THEN iTwin ELSE iv
  IN  /\ on.progressBar /\ ~off.progressBar
      /\ off.period = on.period
      /\ off.seconds = on.seconds
      /\ Events(off.out) = Events(on.out)
      /\ off.out = Events(off.out)
      /\ off.secondsProp = 0
      /\ iTicks > 0 => Publishes(on.out) = <<Publish("seconds", on.seconds)>>

C20_Witness ==
  /\ iTicks > iv.period
  /\ ~iv.progressBar
  /\ iv.out = <<Emit("elapsed")>>
  /\ Len(iTwin.out) = 2

\* C21: a tick that emits elapsed publishes the period as the progress value,
\* never the wrapped value 1; the tick after it publishes the wrap to 1.
C21_ElapsedTickPublishesPeriod ==
  /\ (iTicks > 0 /\ Events(iv.out) # <<>>)
       => /\ \A i \in 1..Len(iv.out) :
               iv.out[i][1] = "seconds"
                 => iv.out[i][2] = iv.period /\ iv.out[i][2] # 1
          /\ iv.progressBar
               => Publishes(iv.out) = <<Publish("seconds", iv.period)>>
          /\ iv.seconds = iv.period
  /\ (iGap.events > 0 /\ iGap.since = 1)
       => /\ iv.seconds = 1
          /\ iv.progressBar => iv.out = <<Publish("seconds", 1)>>

C21_Witness ==
  /\ iv.progressBar
  /\ iGap.events = 2 /\ iGap.since = 1
  /\ iv.secondsProp = 1
  /\ Len(Publishes(iv.out)) = 1

====
